---- MODULE Spec2Model ----
(***************************************************************************)
(* kvlog: a time-versioned key/value store on two MongoDB collections.     *)
(*   kvlog  (kc): one document per version of a key, unique on (k, ts)     *)
(*   value  (vc): long payloads, keyed by the sha1 of the payload          *)
(* The model follows src/kvlog.go.                                         *)
(***************************************************************************)
EXTENDS Naturals, Sequences, FiniteSets, Bags, TLC

VARIABLES kc, vc, hist, ret, nsets, its, procs

vars == <<kc, vc, hist, ret, nsets, its, procs>>

---------------------------------------------------------------------------
(* Bounds of the model *)

\* clock readings are drawn from 1..MaxTS
MaxTS == 3
\* number of Set calls in one behaviour
MaxSets == 3

Keys == {"foo", "test"}
Iters == {"it1", "it2"}
Procs == {"w1", "w2"}

---------------------------------------------------------------------------
(* Go strings.  A string is its run-length encoding: a sequence of runs    *)
(* [c, n] (n >= 1 copies of the character c), adjacent runs having         *)
(* different characters, so that equal strings have equal encodings.       *)

maxInlineValueLength == 200

EmptyStr == <<>>

Rep(c, n) == IF n = 0 THEN <<>> ELSE << [c |-> c, n |-> n] >>

\* len(val): the number of bytes (all characters here are ASCII)
RECURSIVE StrLen(_)
StrLen(s) == IF s = <<>> THEN 0 ELSE Head(s).n + StrLen(Tail(s))

IsSpace(c) == c \in {" ", "\n", "\t"}

RECURSIVE TrimLeft(_)
TrimLeft(s) ==
    IF s = <<>> THEN s
    ELSE IF IsSpace(Head(s).c) THEN TrimLeft(Tail(s)) ELSE s

RECURSIVE TrimRight(_)
TrimRight(s) ==
    IF s = <<>> THEN s
    ELSE IF IsSpace(s[Len(s)].c) THEN TrimRight(SubSeq(s, 1, Len(s) - 1)) ELSE s

\* strings.TrimSpace: drops the leading and trailing white space
TrimSpace(s) == TrimRight(TrimLeft(s))

\* hex.EncodeToString(sha1.Sum(val)): 40 hex digits, never the empty string;
\* distinct payloads of the model have distinct digests (no sha1 collision).
Sha1Hex(s) == <<"sha1", s>>

\* The payloads callers pass to Set
Payloads ==
    { EmptyStr,
      Rep("a", maxInlineValueLength),
      Rep(" ", 1) \o Rep("a", maxInlineValueLength) \o Rep("\n", 1),
      Rep("a", maxInlineValueLength + 1) }

---------------------------------------------------------------------------
(* BSON encoding of the two structs.  The driver's struct codec encodes    *)
(* and decodes exported fields only: KVLog.vid is unexported, so it is not *)
(* written to the document and decodes to the zero value "".               *)

\* KVLog{Key, TS, Val, vid} -> document
MarshalKVLog(kvlog) == [k |-> kvlog.Key, ts |-> kvlog.TS, v |-> kvlog.Val]

\* document -> KVLog, decoded into a fresh KVLog{}
UnmarshalKVLog(doc) == [Key |-> doc.k, TS |-> doc.ts, Val |-> doc.v, vid |-> EmptyStr]

\* Value{ID, Val} -> document
MarshalValue(value) == [id |-> value.ID, v |-> value.Val]

\* document -> Value
UnmarshalValue(doc) == [ID |-> doc.id, Val |-> doc.v]

NilKVLog == [Key |-> "", TS |-> 0, Val |-> EmptyStr, vid |-> EmptyStr]

---------------------------------------------------------------------------
(* The collections.  A collection is a bag of documents (the driver gives  *)
(* every inserted kvlog document a fresh _id, so equal documents can be    *)
(* stored twice unless an index forbids it).  Every operation can fail     *)
(* with a backend error (connection lost, context deadline exceeded); a    *)
(* failed insert stores nothing.                                           *)

\* (mutant) the filter on k is left out of the query
DocsOfAnyKey(coll, key) == BagToSet(coll)

\* the documents of key, and those at or after ts
DocsOf(coll, key) == {d \in BagToSet(coll) : d.k = key}
DocsAfter(coll, key, ts) == {d \in DocsOf(coll, key) : d.ts >= ts}

\* (mutant) kc.InsertOne on a collection without the unique index
InsertKVLogNoIndex(coll, doc, fail) ==
    IF fail THEN [coll |-> coll, err |-> "BackendError"]
    ELSE [coll |-> coll (+) SetToBag({doc}), err |-> "nil"]

\* (mutant) the record of the key is replaced, as by an upsert on k
InsertKVLogUpsert(coll, doc, fail) ==
    IF fail THEN [coll |-> coll, err |-> "BackendError"]
    ELSE [coll |-> SetToBag({d \in BagToSet(coll) : d.k # doc.k} \cup {doc}),
          err |-> "nil"]

\* (mutant) the unique index is on k alone
InsertKVLogKeyIndex(coll, doc, fail) ==
    IF fail THEN [coll |-> coll, err |-> "BackendError"]
    ELSE IF \E d \in BagToSet(coll) : d.k = doc.k
         THEN [coll |-> coll, err |-> "DuplicateKey"]
         ELSE [coll |-> coll (+) SetToBag({doc}), err |-> "nil"]

\* kc.InsertOne under the unique index k_ts on (k, ts)
InsertKVLog(coll, doc, fail) ==
    IF fail THEN [coll |-> coll, err |-> "BackendError"]
    ELSE IF \E d \in BagToSet(coll) : d.k = doc.k /\ d.ts = doc.ts
         THEN [coll |-> coll, err |-> "DuplicateKey"]
         ELSE [coll |-> coll (+) SetToBag({doc}), err |-> "nil"]

\* vc.InsertOne: _id is the primary key
InsertValue(coll, doc, fail) ==
    IF fail THEN [coll |-> coll, err |-> "BackendError"]
    ELSE IF \E d \in BagToSet(coll) : d.id = doc.id
         THEN [coll |-> coll, err |-> "DuplicateKey"]
         ELSE [coll |-> coll (+) SetToBag({doc}), err |-> "nil"]

\* findKVLogLatest: FindOne({k: key}) sorted by ts descending
findKVLogLatest(coll, key, fail) ==
    IF fail THEN [kvlog |-> NilKVLog, err |-> "BackendError"]
    ELSE IF DocsOf(coll, key) = {}
         THEN [kvlog |-> NilKVLog, err |-> "ErrNoDocuments"]
         ELSE [kvlog |-> UnmarshalKVLog(
                   CHOOSE d \in DocsOf(coll, key) :
                       \A e \in DocsOf(coll, key) : e.ts <= d.ts),
               err |-> "nil"]

\* findKVLogAfter: FindOne({k: key, ts: {$gte: ts}}) sorted by ts ascending
findKVLogAfter(coll, key, ts, fail) ==
    IF fail THEN [kvlog |-> NilKVLog, err |-> "BackendError"]
    ELSE IF DocsAfter(coll, key, ts) = {}
         THEN [kvlog |-> NilKVLog, err |-> "ErrNoDocuments"]
         ELSE [kvlog |-> UnmarshalKVLog(
                   CHOOSE d \in DocsAfter(coll, key, ts) :
                       \A e \in DocsAfter(coll, key, ts) : d.ts <= e.ts),
               err |-> "nil"]

\* findValue: FindOne({_id: vid}) on the value collection
findValue(coll, vid, fail) ==
    IF fail THEN [val |-> EmptyStr, err |-> "BackendError"]
    ELSE IF {d \in BagToSet(coll) : d.id = vid} = {}
         THEN [val |-> EmptyStr, err |-> "ErrNoDocuments"]
         ELSE [val |-> UnmarshalValue(CHOOSE d \in BagToSet(coll) : d.id = vid).Val,
               err |-> "nil"]

---------------------------------------------------------------------------
(* KDB.Set, as the two halves of its body *)

Faults == {"none", "findValue", "insertValue", "findKVLogLatest", "insertKVLog"}

\* lines 158-178: find or insert the value record of a long value.
\* vops counts the operations made on the value collection.
SetValue(vcoll, val, fault) ==
    LET vid == Sha1Hex(val)
        fv  == findValue(vcoll, vid, fault = "findValue")
        ins == InsertValue(vcoll, MarshalValue([ID |-> vid, Val |-> val]),
                           fault = "insertValue")
    IN  IF StrLen(val) > maxInlineValueLength
        THEN IF fv.err # "nil" /\ fv.err # "ErrNoDocuments"
             THEN [vc |-> vcoll, vid |-> vid, err |-> fv.err, vops |-> 1]
             ELSE IF fv.err # "nil"
                  THEN [vc |-> ins.coll, vid |-> vid, err |-> ins.err, vops |-> 2]
                  ELSE [vc |-> vcoll, vid |-> vid, err |-> "nil", vops |-> 1]
        ELSE [vc |-> vcoll, vid |-> EmptyStr, err |-> "nil", vops |-> 0]

\* (mutant) any latest record counts as a match
LatestMatchesAny(kvlog, val, vid) == TRUE

\* lines 186-194: does the latest kvlog record already hold the value?
LatestMatches(kvlog, val, vid) ==
    \/ vid # EmptyStr /\ kvlog.vid = vid
    \/ vid = EmptyStr /\ kvlog.Val = val

\* lines 199-204: the record Set inserts
NewKVLog(key, val, vid, now) ==
    [Key |-> key, TS |-> now,
     Val |-> IF vid = EmptyStr THEN val ELSE EmptyStr,
     vid |-> vid]

\* (mutant) a refused timestamp is tried again, one higher
SetKVLogRetry(kcoll, key, val, vid, now, fault) ==
    LET fl   == findKVLogLatest(kcoll, key, fault = "findKVLogLatest")
        new  == NewKVLog(key, val, vid, now)
        ins  == InsertKVLog(kcoll, MarshalKVLog(new), fault = "insertKVLog")
        new2 == NewKVLog(key, val, vid, now + 1)
        ins2 == InsertKVLog(kcoll, MarshalKVLog(new2), FALSE)
    IN  IF fl.err # "nil" /\ fl.err # "ErrNoDocuments"
        THEN [kc |-> kcoll, err |-> fl.err, att |-> 0, ts |-> 0, kvlog |-> NilKVLog]
        ELSE IF fl.err # "ErrNoDocuments" /\ LatestMatches(fl.kvlog, val, vid)
             THEN [kc |-> kcoll, err |-> "nil", att |-> 0, ts |-> 0, kvlog |-> NilKVLog]
             ELSE IF ins.err = "DuplicateKey"
                  THEN [kc |-> ins2.coll, err |-> ins2.err, att |-> 2,
                        ts |-> now + 1, kvlog |-> new2]
                  ELSE [kc |-> ins.coll, err |-> ins.err, att |-> 1,
                        ts |-> IF ins.err = "BackendError" THEN 0 ELSE now,
                        kvlog |-> new]

\* lines 180-210: find or insert the kvlog record.
\* att counts the InsertOne calls made on the kvlog collection, ts is the
\* timestamp of the record the collection was given (0 when none reached it).
SetKVLog(kcoll, key, val, vid, now, fault) ==
    LET fl  == findKVLogLatest(kcoll, key, fault = "findKVLogLatest")
        new == NewKVLog(key, val, vid, now)
        ins == InsertKVLog(kcoll, MarshalKVLog(new), fault = "insertKVLog")
    IN  IF fl.err # "nil" /\ fl.err # "ErrNoDocuments"
        THEN [kc |-> kcoll, err |-> fl.err, att |-> 0, ts |-> 0, kvlog |-> NilKVLog]
        ELSE IF fl.err # "ErrNoDocuments" /\ LatestMatches(fl.kvlog, val, vid)
             THEN [kc |-> kcoll, err |-> "nil", att |-> 0, ts |-> 0, kvlog |-> NilKVLog]
             ELSE [kc |-> ins.coll, err |-> ins.err, att |-> 1,
                   ts |-> IF ins.err = "BackendError" THEN 0 ELSE now, kvlog |-> new]

\* the whole of Set(key, val0) with the clock reading now
SetCall(kcoll, vcoll, key, val0, now, fault) ==
    LET val == TrimSpace(val0)
        a   == SetValue(vcoll, val, fault)
        b   == SetKVLog(kcoll, key, val, a.vid, now, fault)
    IN  IF a.err # "nil"
        THEN [kc |-> kcoll, vc |-> a.vc, err |-> a.err, att |-> 0, ts |-> 0,
              vops |-> a.vops, val |-> val, vid |-> a.vid]
        ELSE [kc |-> b.kc, vc |-> a.vc, err |-> b.err, att |-> b.att, ts |-> b.ts,
              vops |-> a.vops, val |-> val, vid |-> a.vid]

\* did the call append a kvlog record?
Appended(r) == r.att = 1 /\ r.err = "nil"

\* the version a call appended, as Set built it: key, timestamp, the trimmed
\* value and whether the value went to the value collection
Version(key, r) == [k |-> key, ts |-> r.ts, val |-> r.val, ref |-> r.vid # EmptyStr]

---------------------------------------------------------------------------
(* KDB.Get and KDB.GetAt *)

ReadFaults == {"none", "findKVLog", "findValue"}

\* lines 219-222 and 231-234: the value of a kvlog record
Resolve(vcoll, kvlog, fault) ==
    IF kvlog.vid = EmptyStr
    THEN [val |-> kvlog.Val, err |-> "nil"]
    ELSE findValue(vcoll, kvlog.vid, fault = "findValue")

GetCall(kcoll, vcoll, key, fault) ==
    LET fl == findKVLogLatest(kcoll, key, fault = "findKVLog")
    IN  IF fl.err # "nil" THEN [val |-> EmptyStr, err |-> fl.err]
        ELSE Resolve(vcoll, fl.kvlog, fault)

GetAtCall(kcoll, vcoll, key, ts, fault) ==
    LET fl == findKVLogAfter(kcoll, key, ts, fault = "findKVLog")
    IN  IF fl.err # "nil" THEN [val |-> EmptyStr, err |-> fl.err]
        ELSE Resolve(vcoll, fl.kvlog, fault)

---------------------------------------------------------------------------
(* The state.                                                              *)
(*   kc, vc  the two collections                                           *)
(*   hist    the versions appended so far, as Set built them               *)
(*   ret     the last call made and what it returned                       *)
(*   nsets   the number of Set calls made                                  *)
(*   its     the iterators made by GetIterator, by name (SpecIter)         *)
(*   procs   the concurrent callers of Set (SpecConc)                      *)

Idle == [pc |-> "idle"]

NoCall == [op |-> "none", key |-> "", val |-> EmptyStr, ts |-> 0,
           rval |-> EmptyStr, err |-> "nil", att |-> 0, vops |-> 0]

Init ==
    /\ kc = EmptyBag
    /\ vc = EmptyBag
    /\ hist = {}
    /\ ret = NoCall
    /\ nsets = 0
    /\ its = <<>>
    /\ procs = [p \in Procs |-> Idle]

\* the backend faults that can meet Set(key, val0): the value collection is
\* used for long values only
FaultsOf(val0) ==
    IF StrLen(TrimSpace(val0)) > maxInlineValueLength
    THEN Faults
    ELSE {"none", "findKVLogLatest", "insertKVLog"}

\* the clock readings to tell apart: the reading decides nothing in a call
\* that a backend fault ends
Readings(fault) == IF fault = "none" THEN 1..MaxTS ELSE {MaxTS}

\* Set(key, val0): one whole call, the clock reading now
Set(key, val0, now, fault) ==
    \E r \in {SetCall(kc, vc, key, val0, now, fault)} :
        /\ kc' = r.kc
        /\ vc' = r.vc
        /\ hist' = IF Appended(r) THEN hist \cup {Version(key, r)} ELSE hist
        /\ ret' = [op |-> "Set", key |-> key, val |-> val0, ts |-> r.ts,
                   rval |-> EmptyStr, err |-> r.err, att |-> r.att, vops |-> r.vops]
        /\ nsets' = nsets + 1
        /\ UNCHANGED <<its, procs>>

\* Get(key)
Get(key, fault) ==
    \E r \in {GetCall(kc, vc, key, fault)} :
        /\ ret' = [op |-> "Get", key |-> key, val |-> EmptyStr, ts |-> 0,
                   rval |-> r.val, err |-> r.err, att |-> 0, vops |-> 0]
        /\ UNCHANGED <<kc, vc, hist, nsets, its, procs>>

\* GetAt(key, ts)
GetAt(key, ts, fault) ==
    \E r \in {GetAtCall(kc, vc, key, ts, fault)} :
        /\ ret' = [op |-> "GetAt", key |-> key, val |-> EmptyStr, ts |-> ts,
                   rval |-> r.val, err |-> r.err, att |-> 0, vops |-> 0]
        /\ UNCHANGED <<kc, vc, hist, nsets, its, procs>>

\* the calls a caller makes, one after the other
DoSet ==
    /\ nsets < MaxSets
    /\ \E key \in Keys, val0 \in Payloads :
          \E fault \in FaultsOf(val0) :
              \E now \in Readings(fault) : Set(key, val0, now, fault)

DoGet == \E key \in Keys, fault \in ReadFaults : Get(key, fault)

DoGetAt == \E key \in Keys, ts \in 1..MaxTS, fault \in ReadFaults : GetAt(key, ts, fault)

Next == DoSet \/ DoGet \/ DoGetAt

Spec == Init /\ [][Next]_vars


---------------------------------------------------------------------------
(* The iterator: KDB.GetIterator, Iterator.Next, Iterator.Close.           *)
(* Find runs the query and the cursor holds its first batch, which is the  *)
(* whole result for the histories of this model (a batch is 101 documents).*)
(*   cursor  the documents not yet read, newest first                      *)
(*   err     what Err() returns                                            *)
(*   out     the records Next has returned                                 *)
(*   done    Next has returned nil; nilAt: Len(out) when it first did      *)

\* the documents of a set, sorted by ts descending
RECURSIVE SortDesc(_)
SortDesc(docs) ==
    IF docs = {} THEN <<>>
    ELSE LET d == CHOOSE x \in docs : \A y \in docs : y.ts <= x.ts
         IN  <<d>> \o SortDesc(docs \ {d})

\* lines 262-285: what one call of Next does to the iterator it, and the
\* record it returns (NilKVLog for nil)
NextCall(vcoll, it, fail) ==
    LET kvlog == UnmarshalKVLog(Head(it.cursor))
        fv    == findValue(vcoll, kvlog.vid, fail)
        nil   == [it EXCEPT !.done = TRUE,
                            !.nilAt = IF it.done THEN @ ELSE Len(it.out)]
    IN  IF it.cursor # <<>>
        THEN IF kvlog.Val = EmptyStr
             THEN IF fv.err # "nil"
                  THEN [it  |-> [nil EXCEPT !.cursor = Tail(@), !.err = fv.err],
                        rec |-> NilKVLog]
                  ELSE [it  |-> [it EXCEPT !.cursor = Tail(@),
                                           !.out = Append(@, [kvlog EXCEPT !.Val = fv.val])],
                        rec |-> [kvlog EXCEPT !.Val = fv.val]]
             ELSE [it  |-> [it EXCEPT !.cursor = Tail(@), !.out = Append(@, kvlog)],
                   rec |-> kvlog]
        ELSE [it |-> nil, rec |-> NilKVLog]

\* GetIterator(key), the new iterator being named i
GetIterator(i, key, fail) ==
    /\ i \notin DOMAIN its
    /\ its' = IF fail THEN its
              ELSE its @@ (i :> [key |-> key, cursor |-> SortDesc(DocsOf(kc, key)),
                                 err |-> "nil", out |-> <<>>, done |-> FALSE,
                                 nilAt |-> 0, closed |-> FALSE])
    /\ ret' = [op |-> "GetIterator", key |-> key, val |-> EmptyStr, ts |-> 0,
               rval |-> EmptyStr, err |-> IF fail THEN "BackendError" ELSE "nil",
               att |-> 0, vops |-> 0]
    /\ UNCHANGED <<kc, vc, hist, nsets, procs>>

\* it.Next(): Close() has not been called
IterNext(i, fail) ==
    /\ i \in DOMAIN its
    /\ ~ its[i].closed
    /\ LET r == NextCall(vc, its[i], fail)
       IN  /\ its' = [its EXCEPT ![i] = r.it]
           /\ ret' = [op |-> "Next", key |-> its[i].key, val |-> EmptyStr,
                      ts |-> r.rec.TS, rval |-> r.rec.Val, err |-> r.it.err,
                      att |-> 0, vops |-> 0]
    /\ UNCHANGED <<kc, vc, hist, nsets, procs>>

\* it.Close()
IterClose(i) ==
    /\ i \in DOMAIN its
    /\ ~ its[i].closed
    /\ its' = [its EXCEPT ![i].closed = TRUE]
    /\ ret' = [op |-> "Close", key |-> its[i].key, val |-> EmptyStr, ts |-> 0,
               rval |-> EmptyStr, err |-> "nil", att |-> 0, vops |-> 0]
    /\ UNCHANGED <<kc, vc, hist, nsets, procs>>

\* the writes that fill the collections before the iterators are made
IterSet ==
    /\ nsets < MaxSets
    /\ its = <<>>
    /\ \E key \in Keys, val0 \in Payloads, now \in 1..MaxTS :
          Set(key, val0, now, "none")

DoGetIterator == \E i \in Iters, key \in Keys, fail \in BOOLEAN : GetIterator(i, key, fail)

DoIterNext == \E i \in Iters, fail \in BOOLEAN : IterNext(i, fail)

DoIterClose == \E i \in Iters : IterClose(i)

NextIter == IterSet \/ DoGetIterator \/ DoIterNext \/ DoIterClose

SpecIter == Init /\ [][NextIter]_vars


---------------------------------------------------------------------------
(* All six operations in one behaviour.  The writes and the point reads    *)
(* come before the iterators are made: a cursor holds the result of its    *)
(* query, so that a later write does not reach it, and the reads and the   *)
(* iterators change neither collection.                                    *)

OpsSet == its = <<>> /\ DoSet

OpsGet == its = <<>> /\ DoGet

OpsGetAt == its = <<>> /\ DoGetAt

NextOps == OpsSet \/ OpsGet \/ OpsGetAt \/ DoGetIterator \/ DoIterNext \/ DoIterClose

SpecOps == Init /\ [][NextOps]_vars

---------------------------------------------------------------------------
(* Concurrent callers of Set.  KDB holds no lock: a call is a sequence of  *)
(* operations on the collections, each atomic in the database, and the     *)
(* calls of different callers interleave between them.                     *)
(*   pc   the operation the caller makes next, "done" when Set has         *)
(*        returned err                                                     *)

\* lines 155-162: Set is entered; a long value goes to the value collection
SetStart(p, key, val0) ==
    /\ procs[p].pc = "idle"
    /\ nsets < MaxSets
    /\ LET val == TrimSpace(val0)
           long == StrLen(val) > maxInlineValueLength
       IN  procs' = [procs EXCEPT ![p] =
                        [pc  |-> IF long THEN "findValue" ELSE "findKVLogLatest",
                         key |-> key, val |-> val,
                         vid |-> IF long THEN Sha1Hex(val) ELSE EmptyStr,
                         ts |-> 0, err |-> "nil"]]
    /\ nsets' = nsets + 1
    /\ UNCHANGED <<kc, vc, hist, ret, its>>

\* lines 163-166
SetFindValue(p, fail) ==
    /\ procs[p].pc = "findValue"
    /\ LET fv == findValue(vc, procs[p].vid, fail)
       IN  procs' = [procs EXCEPT ![p] =
                IF fv.err # "nil" /\ fv.err # "ErrNoDocuments"
                THEN [@ EXCEPT !.pc = "done", !.err = fv.err]
                ELSE IF fv.err # "nil"
                     THEN [@ EXCEPT !.pc = "insertValue"]
                     ELSE [@ EXCEPT !.pc = "findKVLogLatest"]]
    /\ UNCHANGED <<kc, vc, hist, ret, nsets, its>>

\* lines 167-177
SetInsertValue(p, fail) ==
    /\ procs[p].pc = "insertValue"
    /\ LET ins == InsertValue(vc, MarshalValue([ID |-> procs[p].vid,
                                                Val |-> procs[p].val]), fail)
       IN  /\ vc' = ins.coll
           /\ procs' = [procs EXCEPT ![p] =
                  IF ins.err # "nil"
                  THEN [@ EXCEPT !.pc = "done", !.err = ins.err]
                  ELSE [@ EXCEPT !.pc = "findKVLogLatest"]]
    /\ UNCHANGED <<kc, hist, ret, nsets, its>>

\* lines 181-195
SetFindLatest(p, fail) ==
    /\ procs[p].pc = "findKVLogLatest"
    /\ LET fl == findKVLogLatest(kc, procs[p].key, fail)
       IN  procs' = [procs EXCEPT ![p] =
                IF fl.err # "nil" /\ fl.err # "ErrNoDocuments"
                THEN [@ EXCEPT !.pc = "done", !.err = fl.err]
                ELSE IF fl.err # "ErrNoDocuments"
                        /\ LatestMatches(fl.kvlog, procs[p].val, procs[p].vid)
                     THEN [@ EXCEPT !.pc = "done", !.err = "nil"]
                     ELSE [@ EXCEPT !.pc = "insertKVLog"]]
    /\ UNCHANGED <<kc, vc, hist, ret, nsets, its>>

\* lines 199-210: the clock is read and the record inserted
SetInsertKVLog(p, now, fail) ==
    /\ procs[p].pc = "insertKVLog"
    /\ LET new == NewKVLog(procs[p].key, procs[p].val, procs[p].vid, now)
           ins == InsertKVLog(kc, MarshalKVLog(new), fail)
       IN  /\ kc' = ins.coll
           /\ hist' = IF ins.err = "nil"
                      THEN hist \cup {[k |-> new.Key, ts |-> now, val |-> procs[p].val,
                                       ref |-> new.vid # EmptyStr]}
                      ELSE hist
           /\ procs' = [procs EXCEPT ![p] =
                  [@ EXCEPT !.pc = "done", !.err = ins.err,
                            !.ts = IF ins.err = "BackendError" THEN 0 ELSE now]]
    /\ UNCHANGED <<vc, ret, nsets, its>>

\* the caller has Set's result and can call again
SetReturn(p) ==
    /\ procs[p].pc = "done"
    /\ procs' = [procs EXCEPT ![p] = Idle]
    /\ UNCHANGED <<kc, vc, hist, ret, nsets, its>>

NextConc ==
    \E p \in Procs :
        \/ \E key \in Keys, val0 \in Payloads : SetStart(p, key, val0)
        \/ \E fail \in BOOLEAN : SetFindValue(p, fail)
        \/ \E fail \in BOOLEAN : SetInsertValue(p, fail)
        \/ \E fail \in BOOLEAN : SetFindLatest(p, fail)
        \/ \E fail \in BOOLEAN : \E now \in Readings(IF fail THEN "insertKVLog" ELSE "none") :
               SetInsertKVLog(p, now, fail)
        \/ SetReturn(p)

SpecConc == Init /\ [][NextConc]_vars

---------------------------------------------------------------------------
(* What the claims speak of *)

\* the versions of key, the newest of them, the first at or after ts
VersionsOf(key) == {v \in hist : v.k = key}
Latest(key) == CHOOSE v \in VersionsOf(key) : \A w \in VersionsOf(key) : w.ts <= v.ts
VersionsAfter(key, ts) == {v \in VersionsOf(key) : v.ts >= ts}
FirstAfter(key, ts) ==
    CHOOSE v \in VersionsAfter(key, ts) : \A w \in VersionsAfter(key, ts) : v.ts <= w.ts

\* the step is a call of Set
SetStep == nsets' = nsets + 1 /\ ret'.op = "Set"

\* the last call was a successful Set that left its value as the newest
\* version of its key (it appended with a reading above the key's other
\* timestamps, or found the value there already)
SetIsNewest ==
    /\ ret.op = "Set" /\ ret.err = "nil"
    /\ ret.att = 1 => Latest(ret.key).ts = ret.ts

\* C1: calling Set(key, value) twice in succession produces one History
\* Entry: the second call, when it returns success, has added nothing to the
\* kvlog collection or to the value collection, for short and long values
\* alike.
C1_SetTwiceAddsNothing ==
    [][ ( /\ SetIsNewest
          /\ SetStep
          /\ ret'.key = ret.key /\ ret'.val = ret.val
          /\ ret'.err = "nil" )
        => (kc' = kc /\ vc' = vc) ]_vars

\* C2: a successful Set(k, p) immediately followed by Get(k) returns p with
\* the surrounding white space trimmed, for empty, short, 200 character and
\* longer payloads.
C2_SetThenGetRoundTrip ==
    [][ ( /\ SetIsNewest
          /\ ret'.op = "Get" /\ ret'.key = ret.key
          /\ ret'.err # "BackendError" )
        => (ret'.err = "nil" /\ ret'.rval = TrimSpace(ret.val)) ]_vars

\* C3: Get(key) returns the value of the version of key with the greatest
\* timestamp, inline or stored in the value collection.
C3_GetReturnsLatest ==
    ( /\ ret.op = "Get" /\ ret.err # "BackendError"
      /\ VersionsOf(ret.key) # {} )
    => (ret.err = "nil" /\ ret.rval = Latest(ret.key).val)

\* C4: GetAt(key, t) returns the value of the version with the least
\* timestamp >= t, and fails with ErrNoDocuments exactly when key has no
\* version with timestamp >= t.
C4_GetAtReturnsFirstAfter ==
    (ret.op = "GetAt" /\ ret.err # "BackendError")
    => IF VersionsAfter(ret.key, ret.ts) = {}
       THEN ret.err = "ErrNoDocuments"
       ELSE ret.err = "nil" /\ ret.rval = FirstAfter(ret.key, ret.ts).val

\* the kvlog records, as read back, of the versions that hold payload p by
\* reference
ReadBack(p) ==
    {UnmarshalKVLog(d) : d \in {e \in BagToSet(kc) :
        \E v \in hist : v.k = e.k /\ v.ts = e.ts /\ v.ref /\ v.val = p}}

\* C6: the value collection never holds two records of one payload, and once
\* a long payload is written under two keys there is one value record of it
\* and two kvlog records that refer to it.
C6_OneValueRecordTwoReferences ==
    /\ \A d \in BagToSet(vc) :
          /\ CopiesIn(d, vc) = 1
          /\ \A e \in BagToSet(vc) : e.v = d.v => e = d
    /\ \A p \in {v.val : v \in {w \in hist : w.ref}} :
          (\E v, w \in hist : v.ref /\ w.ref /\ v.val = p /\ w.val = p /\ v.k # w.k)
          => /\ Cardinality({d \in BagToSet(vc) : d.v = p}) = 1
             /\ Cardinality(ReadBack(p)) >= 2
             /\ \A r \in ReadBack(p) :
                    \E d \in BagToSet(vc) : d.v = p /\ r.vid = d.id

\* the number of documents in a collection
Size(coll) == BagCardinality(coll)

\* C7 as stated: a Set call changes nothing, or appends one kvlog record
\* (inserting at most one value record), or fails leaving no new record in
\* either collection.
C7_NoPartialSuccess ==
    [][ SetStep =>
          \/ kc' = kc /\ vc' = vc
          \/ /\ ret'.err = "nil"
             /\ Size(kc') = Size(kc) + 1
             /\ Size(vc') <= Size(vc) + 1
          \/ ret'.err # "nil" /\ kc' = kc /\ vc' = vc ]_vars

\* C7 amended: a Set call that succeeds changes nothing or appends exactly one
\* kvlog record, inserting at most one value record; a Set call that fails
\* adds no kvlog record, and can leave one new value record behind.
C7_FailedSetAddsNoEntry ==
    [][ SetStep =>
          /\ kc \sqsubseteq kc' /\ vc \sqsubseteq vc'
          /\ Size(vc') <= Size(vc) + 1
          /\ ret'.err = "nil" =>
                \/ kc' = kc /\ vc' = vc
                \/ Size(kc') = Size(kc) + 1
          /\ ret'.err # "nil" => kc' = kc ]_vars

\* a Set of a long value failed at the append and left its value record
C7_Witness ==
    /\ ret.op = "Set" /\ ret.err # "nil" /\ ret.att = 1
    /\ StrLen(TrimSpace(ret.val)) > maxInlineValueLength
    /\ \E d \in BagToSet(vc) : d.v = TrimSpace(ret.val)
    /\ \A v \in hist : ~ v.ref

\* C8: for a key with no version, Get(key) and GetAt(key, t) fail with
\* ErrNoDocuments, return no value and leave both collections unchanged.
C8_MissingKeyNotFound ==
    [][ \A key \in Keys :
          (\A v \in hist : v.k # key) =>
             \A t \in 1..MaxTS :
                (Get(key, "none") \/ GetAt(key, t, "none"))
                => /\ ret'.err = "ErrNoDocuments"
                   /\ ret'.rval = EmptyStr
                   /\ kc' = kc /\ vc' = vc ]_vars

\* a read of a key without versions, next to a key that has some
C8_Witness ==
    /\ ret.op \in {"Get", "GetAt"}
    /\ ret.err = "ErrNoDocuments"
    /\ \A v \in hist : v.k # ret.key
    /\ hist # {}

\* C10: when Set goes on to append and the clock gives a timestamp that a
\* version of the key already has, Set makes one InsertOne call, returns the
\* duplicate key error and adds no kvlog record.
C10_DuplicateSurfaced ==
    [][ \A now \in 1..MaxTS :
          ( /\ SetStep
            /\ ret'.att >= 1
            /\ \E v \in hist : v.k = ret'.key /\ v.ts = now
            /\ Set(ret'.key, ret'.val, now, "none") )
          => /\ ret'.att = 1
             /\ ret'.err = "DuplicateKey"
             /\ kc' = kc /\ hist' = hist ]_vars

\* a Set met a used timestamp with a different value
C10_Witness ==
    /\ ret.op = "Set" /\ ret.err = "DuplicateKey" /\ ret.att = 1
    /\ \E v \in hist : v.k = ret.key /\ v.ts = ret.ts /\ v.val # TrimSpace(ret.val)

\* C9: in every state, whatever the interleaving of the Set calls, the kvlog
\* collection holds at most one record for each (key, timestamp).
C9_TimestampUnique ==
    \A d \in BagToSet(kc) :
        /\ CopiesIn(d, kc) = 1
        /\ \A e \in BagToSet(kc) : (e.k = d.k /\ e.ts = d.ts) => e = d

\* two callers went on to append different values to one key, and one of
\* them was refused the timestamp the other had taken
C9_Witness ==
    \E p, q \in Procs :
        /\ p # q
        /\ procs[p].pc = "done" /\ procs[p].err = "nil" /\ procs[p].ts > 0
        /\ procs[q].pc = "done" /\ procs[q].err = "DuplicateKey"
        /\ procs[q].key = procs[p].key /\ procs[q].ts = procs[p].ts
        /\ procs[q].val # procs[p].val

\* the versions of a set, newest first
RECURSIVE NewestFirst(_)
NewestFirst(vs) ==
    IF vs = {} THEN <<>>
    ELSE LET v == CHOOSE x \in vs : \A y \in vs : y.ts <= x.ts
         IN  <<v>> \o NewestFirst(vs \ {v})

\* C5: the successive Next() calls on the iterator of a key return all the
\* versions of the key, newest first and each with its value, before Next
\* returns nil.
C5_IteratorYieldsHistory ==
    \A i \in DOMAIN its :
        (its[i].done /\ its[i].err # "BackendError")
        => LET exp == NewestFirst(VersionsOf(its[i].key))
           IN  /\ its[i].nilAt = Len(exp)
               /\ \A j \in 1..Len(exp) :
                     /\ its[i].out[j].TS = exp[j].ts
                     /\ its[i].out[j].Val = exp[j].val

\* C11: the collections are append-only.  No step of Set, Get, GetAt,
\* GetIterator, Next or Close changes or removes a record of either
\* collection; a Set call adds at most one kvlog record and at most one value
\* record, and the other operations add none.
C11_AppendOnly ==
    [][ /\ kc \sqsubseteq kc' /\ vc \sqsubseteq vc'
        /\ Size(kc') <= Size(kc) + 1
        /\ Size(vc') <= Size(vc) + 1
        /\ ret'.op # "Set" => (kc' = kc /\ vc' = vc) ]_vars

\* a key has two records, one of them of a long value, and an iterator has
\* returned a record of it and was closed
C11_Witness ==
    /\ \E v, w \in hist :
          /\ v.k = w.k /\ v.ts # w.ts /\ v.ref
          /\ \E i \in DOMAIN its :
                its[i].key = v.k /\ its[i].closed /\ Len(its[i].out) >= 1
    /\ vc # EmptyBag
    /\ ret.op = "Close"

\* the kvlog record of a version, as a reader decodes it
StoredAs(v) ==
    UnmarshalKVLog(CHOOSE d \in BagToSet(kc) : d.k = v.k /\ d.ts = v.ts)

\* C12: the kvlog record of every version Set appended holds the value inline
\* when the trimmed value has at most 200 characters, and the id of its value
\* record when it has more, never both; and a Set call of a value stored
\* inline makes no call on the value collection.
C12_InlineOrReference ==
    /\ \A v \in hist :
          IF StrLen(v.val) <= maxInlineValueLength
          THEN StoredAs(v).Val = v.val /\ StoredAs(v).vid = EmptyStr
          ELSE StoredAs(v).vid = Sha1Hex(v.val) /\ StoredAs(v).Val = EmptyStr
    /\ (ret.op = "Set" /\ StrLen(TrimSpace(ret.val)) <= maxInlineValueLength)
          => ret.vops = 0

\* C13: Set calls on one key are not serialized.  Whenever a caller's append
\* reaches the kvlog collection, it is refused with the duplicate key error,
\* adding nothing, when a record of the key has its timestamp already, and
\* it succeeds, adding its record, when none has: of the appends that carry
\* one timestamp one succeeds, and appends with distinct timestamps all
\* succeed, whatever the other callers have read or appended meanwhile.
C13_AppendRace ==
    [][ \A p \in Procs :
          ( /\ procs[p].pc = "insertKVLog"
            /\ procs'[p].pc = "done"
            /\ procs'[p].err # "BackendError" )
          => IF \E d \in BagToSet(kc) : d.k = procs[p].key /\ d.ts = procs'[p].ts
             THEN procs'[p].err = "DuplicateKey" /\ kc' = kc
             ELSE /\ procs'[p].err = "nil"
                  /\ Size(kc') = Size(kc) + 1
                  /\ \E d \in BagToSet(kc') :
                        /\ d.k = procs[p].key /\ d.ts = procs'[p].ts
                        /\ CopiesIn(d, kc) = 0 ]_vars

\* two callers set the same short value on a key without versions: both
\* found no latest record, both appended, and the key has the value twice
C13_Witness ==
    \E p, q \in Procs :
        /\ p # q
        /\ procs[p].pc = "done" /\ procs[p].err = "nil" /\ procs[p].ts > 0
        /\ procs[q].pc = "done" /\ procs[q].err = "nil" /\ procs[q].ts > 0
        /\ procs[p].key = procs[q].key
        /\ procs[p].val = procs[q].val /\ procs[p].vid = EmptyStr
        /\ procs[p].ts # procs[q].ts
        /\ VersionsOf(procs[p].key) =
              { [k |-> procs[p].key, ts |-> procs[p].ts, val |-> procs[p].val, ref |-> FALSE],
                [k |-> procs[q].key, ts |-> procs[q].ts, val |-> procs[q].val, ref |-> FALSE] }

\* C14: Next resolves the value of a record as Get does.  When Next reads a
\* record whose value Get resolves without error (an inline value, empty or
\* not, or a referenced one), Next returns that record with the same value,
\* sets no error and does not end the iteration.
C14_NextResolvesAsGet ==
    [][ \A i \in DOMAIN its :
          ( /\ its[i].cursor # <<>>
            /\ IterNext(i, FALSE)
            /\ Resolve(vc, UnmarshalKVLog(Head(its[i].cursor)), "none").err = "nil" )
          => /\ ret'.ts = Head(its[i].cursor).ts
             /\ ret'.rval =
                    Resolve(vc, UnmarshalKVLog(Head(its[i].cursor)), "none").val
             /\ its'[i].err = its[i].err
             /\ its'[i].out # its[i].out
             /\ ~ its'[i].done ]_vars

\* the records an iterator has returned have strictly decreasing timestamps,
\* all of them timestamps of versions of its key
Descending(i) ==
    /\ \A j \in 1..Len(its[i].out) :
          \E v \in VersionsOf(its[i].key) : v.ts = its[i].out[j].TS
    /\ \A j \in 1..(Len(its[i].out) - 1) : its[i].out[j].TS > its[i].out[j + 1].TS

\* C15: the iteration is finite and restartable.  An iterator returns at most
\* one record for each version of its key, newest first; when Next returns
\* nil, the versions are exhausted and Err() is nil (no backend fault having
\* met the iterator); and a step that advances or closes one iterator, or
\* makes a new one, leaves every other iterator as it was.
C15_FiniteRestartable ==
    /\ [](\A i \in DOMAIN its :
             /\ Len(its[i].out) <= Cardinality(VersionsOf(its[i].key))
             /\ Descending(i)
             /\ (its[i].done /\ its[i].err # "BackendError")
                   => (its[i].cursor = <<>> /\ its[i].err = "nil"))
    /\ [][ \A i, j \in DOMAIN its :
              (i # j /\ its'[i] # its[i]) => its'[j] = its[j] ]_vars

\* C16: storing a long payload succeeds whatever the interleaving.  A caller
\* whose insert of the value record reaches the value collection goes on to
\* the kvlog collection without error, also when another caller has inserted
\* the same payload since this one looked for it; and the value collection
\* holds one record of each payload.
C16_ValueStoredUnderRace ==
    /\ [](\A d \in BagToSet(vc) :
             /\ CopiesIn(d, vc) = 1
             /\ \A e \in BagToSet(vc) : e.v = d.v => e = d)
    /\ [][ \A p \in Procs :
              ( /\ procs[p].pc = "insertValue"
                /\ procs'[p].pc # "insertValue"
                /\ procs'[p].err # "BackendError" )
              => /\ procs'[p].pc = "findKVLogLatest"
                 /\ procs'[p].err = "nil"
                 /\ \E d \in BagToSet(vc') : d.id = procs[p].vid ]_vars

\* C17: no two versions of a key that are adjacent in timestamp order have
\* the same value, when the calls follow one another and the clock strictly
\* increases: a Set call that appends with a reading above every timestamp
\* in use appends a value that differs from the value of the newest version
\* its key had, inline or stored in the value collection.
C17_NoAdjacentDuplicates ==
    [][ ( /\ SetStep
          /\ ret'.att = 1 /\ ret'.err = "nil"
          /\ VersionsOf(ret'.key) # {}
          /\ \A v \in hist : v.ts < ret'.ts )
        => Latest(ret'.key).val # TrimSpace(ret'.val) ]_vars

\* C18: referential integrity.  The value record of every version appended
\* with a long value is in the value collection, after failed Set calls too,
\* and no read fails with ErrNoDocuments on a version that exists: Get fails
\* so only for a key without versions, GetAt only when no version is at or
\* after the timestamp, and Next never.
C18_ReferentialIntegrity ==
    /\ \A v \in hist :
          v.ref => \E d \in BagToSet(vc) : d.id = Sha1Hex(v.val) /\ d.v = v.val
    /\ ret.err = "ErrNoDocuments" =>
          /\ ret.op = "Get" => VersionsOf(ret.key) = {}
          /\ ret.op = "GetAt" => VersionsAfter(ret.key, ret.ts) = {}
          /\ ret.op # "Next"

\* C19: a Set call that appends makes its record the latest of its key.
\* Whatever the clock reading that does not collide, a reading below the
\* key's greatest timestamp included, the appended record has the greatest
\* timestamp of the key and is the record findKVLogLatest then finds.
C19_AppendedIsLatest ==
    [][ ( /\ SetStep
          /\ ret'.att = 1 /\ ret'.err = "nil" )
        => /\ \A d \in BagToSet(kc') : d.k = ret'.key => d.ts <= ret'.ts
           /\ findKVLogLatest(kc', ret'.key, FALSE).kvlog.TS = ret'.ts ]_vars

====
